---- MODULE Spec2Model ----
(***************************************************************************)
(* Model of src/agent.py: the CI fix agent.  One invocation fetches the    *)
(* logs of a failed run, diagnoses them, patches requirements.txt and      *)
(* posts a pull-request comment.                                           *)
(*                                                                         *)
(* Text is a sequence of chunks.  A chunk is one character, except that    *)
(* the two literals the code searches for are each one chunk, so that the  *)
(* substring test and the split are computed on them as str does.          *)
(***************************************************************************)
EXTENDS Integers, Sequences, FiniteSets, TLC

VARIABLES pc, runLogs, logs, diagnosis, manifest, manifest0, calls,
          reports, comments, console, delivery, error

vars == <<pc, runLogs, logs, diagnosis, manifest, manifest0, calls,
          reports, comments, console, delivery, error>>

----------------------------------------------------------------------------
(* Bounds of the explored inputs *)

MaxLogLen == 4
MaxManifestLen == 2
MaxTailLen == 3
MaxCalls == 2

----------------------------------------------------------------------------
(* Text *)

ErrorLiteral == "ModuleNotFoundError"
NamedLiteral == "No module named"
NL == "\n"
Whitespace == {" ", NL}
QuoteChars == {"'", "\""}

LogChunks == {ErrorLiteral, NamedLiteral, "a", "'", "\"", " ", NL}
ManifestChunks == {"a", NL}

RECURSIVE TextsFrom(_, _)
TextsFrom(chunks, n) ==
    IF n = 0 THEN {<<>>}
    ELSE LET shorter == TextsFrom(chunks, n - 1)
         IN  shorter \cup {Append(s, c) : s \in shorter, c \in chunks}

LogTexts == TextsFrom(LogChunks, MaxLogLen)

(* str.__contains__: sub in s *)
str_in(sub, s) ==
    \E i \in 0..(Len(s) - Len(sub)) : SubSeq(s, i + 1, i + Len(sub)) = sub

(* str.count: the number of non-overlapping occurrences of sub in s *)
RECURSIVE str_count(_, _)
str_count(s, sub) ==
    IF Len(sub) = 0 THEN Len(s) + 1
    ELSE IF Len(s) < Len(sub) THEN 0
    ELSE IF SubSeq(s, 1, Len(sub)) = sub
         THEN 1 + str_count(SubSeq(s, Len(sub) + 1, Len(s)), sub)
         ELSE str_count(Tail(s), sub)

(* s.split(sep)[-1]: what follows the last sep, the whole of s without one *)
split_last(s, sep) ==
    LET at == {i \in 1..Len(s) : s[i] = sep}
    IN  IF at = {} THEN s
        ELSE LET last == CHOOSE i \in at : \A j \in at : j <= i
             IN  SubSeq(s, last + 1, Len(s))

RECURSIVE lstrip(_, _)
lstrip(s, chars) ==
    IF s # <<>> /\ Head(s) \in chars THEN lstrip(Tail(s), chars) ELSE s

RECURSIVE rstrip(_, _)
rstrip(s, chars) ==
    IF s # <<>> /\ s[Len(s)] \in chars
    THEN rstrip(SubSeq(s, 1, Len(s) - 1), chars)
    ELSE s

(* str.strip(chars): every leading and trailing chunk of chars goes *)
strip(s, chars) == rstrip(lstrip(s, chars), chars)

(* The lines of a text, as str.split("\n") gives them *)
RECURSIVE Lines(_)
Lines(s) ==
    LET at == {i \in 1..Len(s) : s[i] = NL}
    IN  IF at = {} THEN <<s>>
        ELSE LET first == CHOOSE i \in at : \A j \in at : i <= j
             IN  <<SubSeq(s, 1, first - 1)>> \o Lines(SubSeq(s, first + 1, Len(s)))

----------------------------------------------------------------------------
(* CIFixAgent.diagnose *)

NoDiagnosis == [type |-> "none"]

diagnose(text) ==
    IF str_in(<<ErrorLiteral>>, text)
    THEN [type |-> "missing_dependency",
          dependency |-> strip(strip(split_last(text, NamedLiteral), Whitespace),
                               QuoteChars)]
    ELSE [type |-> "unknown"]

----------------------------------------------------------------------------
(* FilesystemTool.add_dependency: the content the file holds afterwards *)

add_dependencyAlways(content, dependency) ==
    content \o <<NL>> \o dependency \o <<NL>>

add_dependency(content, dependency) ==
    IF ~ str_in(dependency, content)
    THEN content \o <<NL>> \o dependency \o <<NL>>
    ELSE content

(* The comment body act builds: it names the dependency twice *)
Comment(dep) == [error_detected |-> dep, proposed_fix |-> dep]

----------------------------------------------------------------------------
(* One invocation: CIFixAgent.run *)

NoDuplicateLine(content) ==
    LET ls == Lines(content)
    IN  \A i, j \in 1..Len(ls) : (i < j /\ ls[i] # <<>>) => ls[i] # ls[j]

InitManifests ==
    {m \in TextsFrom(ManifestChunks, MaxManifestLen) : NoDuplicateLine(m)}

Init ==
    /\ pc = "get_ci_logs"
    /\ runLogs \in LogTexts
    /\ logs = <<>>
    /\ diagnosis = NoDiagnosis
    /\ manifest \in InitManifests
    /\ manifest0 = manifest
    /\ calls = <<>>
    /\ reports = <<>>
    /\ comments = <<>>
    /\ console = <<>>
    /\ delivery = "none"
    /\ error = "none"

(* get_ci_logs returns the text of the run's logs *)
GetCiLogs ==
    /\ pc = "get_ci_logs"
    /\ logs' = runLogs
    /\ pc' = "diagnose"
    /\ UNCHANGED <<runLogs, diagnosis, manifest, manifest0, calls, reports,
                   comments, console, delivery, error>>

(* get_ci_logs raises: raise_for_status or a bad archive *)
GetCiLogsRaises ==
    /\ pc = "get_ci_logs"
    /\ pc' = "aborted"
    /\ error' = "retrieval"
    /\ UNCHANGED <<runLogs, logs, diagnosis, manifest, manifest0, calls,
                   reports, comments, console, delivery>>

Diagnose ==
    /\ pc = "diagnose"
    /\ diagnosis' = diagnose(logs)
    /\ pc' = "act"
    /\ UNCHANGED <<runLogs, logs, manifest, manifest0, calls, reports,
                   comments, console, delivery, error>>

(* act, the branch of a missing dependency: on to the patch *)
ActMissing ==
    /\ pc = "act"
    /\ diagnosis.type = "missing_dependency"
    /\ pc' = "add_dependency"
    /\ UNCHANGED <<runLogs, logs, diagnosis, manifest, manifest0, calls,
                   reports, comments, console, delivery, error>>

ActOtherReporting ==
    /\ pc = "act"
    /\ diagnosis.type # "missing_dependency"
    /\ reports' = Append(reports, Comment(<<>>))
    /\ console' = Append(console, "no_fixable_issue")
    /\ pc' = "done"
    /\ UNCHANGED <<runLogs, logs, diagnosis, manifest, manifest0, calls,
                   comments, delivery, error>>

(* act, the else branch: a console line and nothing more *)
ActOther ==
    /\ pc = "act"
    /\ diagnosis.type # "missing_dependency"
    /\ console' = Append(console, "no_fixable_issue")
    /\ pc' = "done"
    /\ UNCHANGED <<runLogs, logs, diagnosis, manifest, manifest0, calls,
                   reports, comments, delivery, error>>

(* add_dependency returns: the file holds add_dependency(content, dep) *)
AddDependency ==
    /\ pc = "add_dependency"
    /\ manifest' = add_dependency(manifest, diagnosis.dependency)
    /\ calls' = Append(calls, [dep |-> diagnosis.dependency,
                               before |-> manifest,
                               after |-> manifest'])
    /\ pc' = "post_pr_comment"
    /\ UNCHANGED <<runLogs, logs, diagnosis, manifest0, reports, comments,
                   console, delivery, error>>

AddDependencyReadSwallowed ==
    /\ pc = "add_dependency"
    /\ error' = "patch_io"
    /\ pc' = "post_pr_comment"
    /\ UNCHANGED <<runLogs, logs, diagnosis, manifest, manifest0, calls,
                   reports, comments, console, delivery>>

(* read_text raises: the exception leaves act and run *)
AddDependencyReadRaises ==
    /\ pc = "add_dependency"
    /\ error' = "patch_io"
    /\ pc' = "aborted"
    /\ UNCHANGED <<runLogs, logs, diagnosis, manifest, manifest0, calls,
                   reports, comments, console, delivery>>

(* write_text raises: the file is as it was when the open failed, empty   *)
(* when the write failed after the open truncated it                      *)
AddDependencyWriteRaises ==
    /\ pc = "add_dependency"
    /\ ~ str_in(diagnosis.dependency, manifest)
    /\ manifest' \in {manifest, <<>>}
    /\ error' = "patch_io"
    /\ pc' = "aborted"
    /\ UNCHANGED <<runLogs, logs, diagnosis, manifest0, calls, reports,
                   comments, console, delivery>>

(* post_pr_comment: each action is the call under one answer of the forge. *)
(* The call is handed its body (reports) whatever happens next.            *)

(* requests.get or .json() raises: nothing catches it *)
PostPrCommentGetRaises ==
    /\ pc = "post_pr_comment"
    /\ reports' = Append(reports, Comment(diagnosis.dependency))
    /\ delivery' = "get_raised"
    /\ error' = "report_delivery"
    /\ pc' = "aborted"
    /\ UNCHANGED <<runLogs, logs, diagnosis, manifest, manifest0, calls,
                   comments, console>>

(* the run has no pull_requests: a console line, then return *)
PostPrCommentNoPr ==
    /\ pc = "post_pr_comment"
    /\ reports' = Append(reports, Comment(diagnosis.dependency))
    /\ delivery' = "no_pr"
    /\ console' = Append(console, "no_pr")
    /\ pc' = "print_fix"
    /\ UNCHANGED <<runLogs, logs, diagnosis, manifest, manifest0, calls,
                   comments, error>>

PostPrCommentPostRaisesRollback ==
    /\ pc = "post_pr_comment"
    /\ reports' = Append(reports, Comment(diagnosis.dependency))
    /\ delivery' = "post_raised"
    /\ error' = "report_delivery"
    /\ manifest' = manifest0
    /\ pc' = "aborted"
    /\ UNCHANGED <<runLogs, logs, diagnosis, manifest0, calls, comments,
                   console>>

(* requests.post raises: nothing catches it *)
PostPrCommentPostRaises ==
    /\ pc = "post_pr_comment"
    /\ reports' = Append(reports, Comment(diagnosis.dependency))
    /\ delivery' = "post_raised"
    /\ error' = "report_delivery"
    /\ pc' = "aborted"
    /\ UNCHANGED <<runLogs, logs, diagnosis, manifest, manifest0, calls,
                   comments, console>>

(* requests.post answers with an error status: the response is dropped *)
PostPrCommentRejected ==
    /\ pc = "post_pr_comment"
    /\ reports' = Append(reports, Comment(diagnosis.dependency))
    /\ delivery' = "rejected"
    /\ pc' = "print_fix"
    /\ UNCHANGED <<runLogs, logs, diagnosis, manifest, manifest0, calls,
                   comments, console, error>>

(* requests.post creates the comment *)
PostPrCommentPosted ==
    /\ pc = "post_pr_comment"
    /\ reports' = Append(reports, Comment(diagnosis.dependency))
    /\ comments' = Append(comments, Comment(diagnosis.dependency))
    /\ delivery' = "posted"
    /\ pc' = "print_fix"
    /\ UNCHANGED <<runLogs, logs, diagnosis, manifest, manifest0, calls,
                   console, error>>

(* the last line of the matched branch of act *)
PrintFix ==
    /\ pc = "print_fix"
    /\ console' = Append(console, "proposed_fix")
    /\ pc' = "done"
    /\ UNCHANGED <<runLogs, logs, diagnosis, manifest, manifest0, calls,
                   reports, comments, delivery, error>>

Next ==
    \/ GetCiLogs
    \/ GetCiLogsRaises
    \/ Diagnose
    \/ ActMissing
    \/ ActOther
    \/ AddDependency
    \/ AddDependencyReadRaises
    \/ AddDependencyWriteRaises
    \/ PostPrCommentGetRaises
    \/ PostPrCommentNoPr
    \/ PostPrCommentPostRaises
    \/ PostPrCommentRejected
    \/ PostPrCommentPosted
    \/ PrintFix

Spec == Init /\ [][Next]_vars

----------------------------------------------------------------------------
(* The patcher called serially, each time with a name diagnose gives for   *)
(* a log that reads "ModuleNotFoundError: No module named" and a tail.     *)

PatchLogs ==
    {<<ErrorLiteral, NamedLiteral>> \o t : t \in TextsFrom(LogChunks, MaxTailLen)}

PatchNames == {diagnose(l).dependency : l \in PatchLogs}

InitPatch ==
    /\ pc = "serial"
    /\ runLogs = <<>>
    /\ logs = <<>>
    /\ diagnosis = NoDiagnosis
    /\ manifest \in InitManifests
    /\ manifest0 = manifest
    /\ calls = <<>>
    /\ reports = <<>>
    /\ comments = <<>>
    /\ console = <<>>
    /\ delivery = "none"
    /\ error = "none"

PatcherCall ==
    /\ pc = "serial"
    /\ Len(calls) < MaxCalls
    /\ \E dep \in PatchNames :
          /\ manifest' = add_dependency(manifest, dep)
          /\ calls' = Append(calls, [dep |-> dep, before |-> manifest,
                                     after |-> manifest'])
    /\ UNCHANGED <<pc, runLogs, logs, diagnosis, manifest0, reports,
                   comments, console, delivery, error>>

NextPatch == PatcherCall

SpecPatch == InitPatch /\ [][NextPatch]_vars

----------------------------------------------------------------------------
(* What the specification says diagnose extracts *)

(* the text up to the end of its first line *)
RestOfLine(s) ==
    LET at == {i \in 1..Len(s) : s[i] = NL}
    IN  IF at = {} THEN s
        ELSE SubSeq(s, 1, (CHOOSE i \in at : \A j \in at : i <= j) - 1)

(* one quote character less at each end that has one *)
StripOneQuoteLayer(s) ==
    LET front == IF s # <<>> /\ Head(s) \in QuoteChars THEN Tail(s) ELSE s
    IN  IF front # <<>> /\ front[Len(front)] \in QuoteChars
        THEN SubSeq(front, 1, Len(front) - 1)
        ELSE front

SpecifiedName(text) ==
    StripOneQuoteLayer(strip(RestOfLine(split_last(text, NamedLiteral)), Whitespace))

Diagnosed == diagnosis # NoDiagnosis

----------------------------------------------------------------------------
(* C1: whenever the fetched log does not contain the literal after which   *)
(* the name is extracted ("No module named"), the diagnosis made of it is  *)
(* Unknown.                                                                *)
C1_UnknownWithoutMarker ==
    (Diagnosed /\ ~ str_in(<<NamedLiteral>>, logs))
        => diagnosis = [type |-> "unknown"]

(* C2: whenever the fetched log contains the literal "No module named",    *)
(* the diagnosis is MissingDependency and its name is the text after the   *)
(* last occurrence up to the end of that line, without surrounding         *)
(* whitespace and without one layer of surrounding quotes.                 *)
C2_NameIsRestOfLine ==
    (Diagnosed /\ str_in(<<NamedLiteral>>, logs))
        => diagnosis = [type |-> "missing_dependency",
                        dependency |-> SpecifiedName(logs)]

(* C3: the name of a MissingDependency diagnosis is not empty and neither  *)
(* begins nor ends with a quote or a whitespace character.                 *)
C3_NameIsClean ==
    diagnosis.type = "missing_dependency"
        => LET name == diagnosis.dependency
           IN  /\ name # <<>>
               /\ Head(name) \notin QuoteChars \cup Whitespace
               /\ name[Len(name)] \notin QuoteChars \cup Whitespace

(* C4: when two successive patcher calls carry the same name, the second   *)
(* leaves the file as the first left it, and the name, absent before the   *)
(* first call, occurs exactly once in the file.                            *)
C4_PatcherIdempotent ==
    \A i \in 1..(Len(calls) - 1) :
        calls[i + 1].dep = calls[i].dep
            => /\ calls[i + 1].after = calls[i].after
               /\ ~ str_in(calls[i].dep, calls[i].before)
                     => str_count(calls[i + 1].after, calls[i].dep) = 1

(* C5: after act on an Unknown diagnosis the manifest is as it was, the    *)
(* patcher and the reporting sink were never called and the invocation has *)
(* not failed; a fetched log without the literal diagnose tests for is     *)
(* diagnosed Unknown.                                                      *)
C5_UnknownHasNoEffect ==
    /\ diagnosis.type = "unknown"
          => /\ manifest = manifest0
             /\ calls = <<>>
             /\ reports = <<>>
             /\ comments = <<>>
             /\ error = "none"
             /\ pc \in {"act", "done"}
    /\ (Diagnosed /\ ~ str_in(<<ErrorLiteral>>, logs))
          => diagnosis.type = "unknown"

C5_Witness ==
    /\ pc = "done"
    /\ diagnosis.type = "unknown"
    /\ logs # <<>>
    /\ console = <<"no_fixable_issue">>
    /\ manifest = manifest0

(* C6: a patcher call whose name already occurs in the manifest writes     *)
(* nothing, and once the patch step of a matched diagnosis has returned    *)
(* and the sink has been called, the sink was handed exactly one report,   *)
(* which names the dependency.                                             *)
C6_ReportOnceWriteOrNot ==
    /\ \A i \in 1..Len(calls) :
          str_in(calls[i].dep, calls[i].before)
              => calls[i].after = calls[i].before
    /\ Len(reports) <= 1
    /\ (calls # <<>> /\ pc \in {"print_fix", "done", "aborted"})
          => reports = <<Comment(diagnosis.dependency)>>
    /\ (calls # <<>> /\ str_in(diagnosis.dependency, manifest0))
          => manifest = manifest0

C6_Witness ==
    /\ pc = "done"
    /\ calls # <<>>
    /\ diagnosis.dependency # <<>>
    /\ str_in(diagnosis.dependency, manifest0)
    /\ manifest = manifest0
    /\ Len(reports) = 1

(* C7: if a report was handed to the sink or the fix was announced, the    *)
(* patcher returned for that dependency, leaving the name in the manifest; *)
(* when reading or writing the manifest failed the invocation is aborted   *)
(* and no report was handed over or posted.                                *)
C7_NoFalseApplied ==
    /\ (reports # <<>> \/ \E i \in 1..Len(console) : console[i] = "proposed_fix")
          => /\ Len(calls) = 1
             /\ calls[1].dep = diagnosis.dependency
             /\ manifest = calls[1].after
             /\ str_in(diagnosis.dependency, manifest)
             /\ error # "patch_io"
    /\ error = "patch_io"
          => /\ pc = "aborted"
             /\ reports = <<>>
             /\ comments = <<>>
             /\ calls = <<>>

C7_Witness ==
    /\ pc = "aborted"
    /\ error = "patch_io"
    /\ diagnosis.type = "missing_dependency"
    /\ reports = <<>>

(* C8: when the sink cannot deliver the report (the request raises, is     *)
(* rejected, or the run has no pull request) the invocation does not       *)
(* abort.                                                                  *)
C8_DeliveryErrorNotFatal ==
    delivery \in {"get_raised", "no_pr", "post_raised", "rejected"}
        => pc # "aborted" /\ error = "none"

(* C9: after any sequence of serial patcher calls on a manifest without    *)
(* duplicate entries, no non-blank line occurs twice in the manifest.      *)
C9_NoDuplicateEntry == NoDuplicateLine(manifest)

(* C10: the sink is called only after the patcher has returned, no step    *)
(* changes the manifest once the patcher has returned, and when the sink   *)
(* call fails the aborted invocation leaves the patched content.           *)
C10_PatchThenReport ==
    /\ [][/\ reports' # reports => calls # <<>>
          /\ calls # <<>> => manifest' = manifest]_vars
    /\ [](delivery \in {"get_raised", "post_raised"}
            => /\ pc = "aborted"
               /\ manifest = calls[1].after
               /\ manifest = add_dependency(manifest0, diagnosis.dependency))

C10_Witness ==
    /\ delivery = "post_raised"
    /\ pc = "aborted"
    /\ manifest # manifest0
    /\ manifest = calls[1].after

====
